---- MODULE Spec2Model ----
(***************************************************************************)
(* prune-github-images: GithubPackageCleaner (src/main.py).                *)
(*                                                                         *)
(* The cleaner lists the container packages of an organisation, keeps the  *)
(* ones whose name starts with a prefix, lists the versions of each, and   *)
(* deletes the versions that are older than 30 days and whose tags are     *)
(* safe to delete.  The registry behind the GitHub API, the wall clock and *)
(* the outcome of each request are the environment.                        *)
(*                                                                         *)
(* Strings the code inspects (package names, tags) are sequences of        *)
(* one-character strings, so that startswith and the regular expression    *)
(* are computed character by character.  Instants are whole days.          *)
(***************************************************************************)
EXTENDS Integers, Sequences, FiniteSets, TLC

VARIABLES
    registry,           \* remote state: sequence of [name, versions]
    clock,              \* wall clock, read by datetime.now (line 52)
    run,                \* number of the current invocation of main()
    pc,                 \* control point of clean_outdated_packages
    packages,           \* local `packages` (line 88)
    pkgIdx,             \* position of the loop at line 93
    outdated_versions,  \* local `outdated_versions` (line 94)
    verIdx,             \* position of the loop at line 95
    has_outdated,       \* local `has_outdated` (lines 91, 97)
    output,             \* the summary printed at lines 99-102, "" before
    calls,              \* requests issued by the current run, in order
    history,            \* finished runs: sequence of [calls, output, pc]
    arg_tags,           \* argument of a call of is_tags_safe_to_delete
    ret_safe            \* what that call returned

vars == <<registry, clock, run, pc, packages, pkgIdx, outdated_versions,
          verIdx, has_outdated, output, calls, history, arg_tags, ret_safe>>

probe == <<arg_tags, ret_safe>>

----------------------------------------------------------------------------
(* Bounds of the model. *)

MaxPkgs == 2        \* packages in the organisation
MaxVersions == 3    \* versions in the organisation, over all packages
MaxCreated == 2     \* latest creation day of a version
MaxTicks == 1       \* days the wall clock may advance
MaxRuns == 2        \* invocations of main()
MaxTags == 2        \* tags of a version handed to is_tags_safe_to_delete

(* timedelta(days=30), line 52. *)
ThirtyDays == 30

Clock0 == ThirtyDays + 1
MaxClock == Clock0 + MaxTicks

----------------------------------------------------------------------------
(* Strings. *)

writing_api == <<"w","r","i","t","i","n","g","-","a","p","i">>
writing_web == <<"w","r","i","t","i","n","g","-","w","e","b">>
Writing_api == <<"W","r","i","t","i","n","g","-","a","p","i">>
other_svc == <<"o","t","h","e","r","-","s","v","c">>

PackageNames == {writing_api, writing_web, Writing_api, other_svc}

(* CONTAINER_PREFIX, default "writing-" (line 112). *)
container_prefix == <<"w","r","i","t","i","n","g","-">>

poc_x == <<"p","o","c","-","x">>
prod == <<"p","r","o","d">>

lower(c) == IF c = "W" THEN "w" ELSE c

\* startswith on lower-cased strings.
startswith_ignore_case(s, prefix) ==
    /\ Len(prefix) <= Len(s)
    /\ \A i \in 1..Len(prefix) : lower(s[i]) = lower(prefix[i])

\* str.startswith (line 43): literal, case-sensitive prefix test.
startswith(s, prefix) ==
    /\ Len(prefix) <= Len(s)
    /\ \A i \in 1..Len(prefix) : s[i] = prefix[i]

(* TAMP_TAG = re.compile(r"^(temp|poc|feat|dev|debug)-.*$"), line 20. *)
temp == <<"t","e","m","p">>
poc == <<"p","o","c">>
feat == <<"f","e","a","t">>
dev == <<"d","e","v">>
debug == <<"d","e","b","u","g">>

TAMP_TAG_alternatives == {temp, poc, feat, dev, debug}

\* ".*$" of the pattern: "." matches any character but a newline, and "$"
\* matches at the end of the string or just before a newline that ends it.
dot_star_dollar(rest) ==
    \A i \in 1..Len(rest) : rest[i] = "\n" => i = Len(rest)

\* TAMP_TAG.match(tag) is not None (line 73).
TAMP_TAG_match(tag) ==
    \E alt \in TAMP_TAG_alternatives :
        /\ startswith(tag, alt \o <<"-">>)
        /\ dot_star_dollar(SubSeq(tag, Len(alt) + 2, Len(tag)))

\* Lines 67-75 with the test of line 71 left out.
is_tags_safe_to_delete_first_tag(tags) ==
    IF Len(tags) = 0 THEN TRUE
    ELSE TAMP_TAG_match(tags[1])

\* is_tags_safe_to_delete (lines 67-75); `not tags` is the empty list.
is_tags_safe_to_delete(tags) ==
    IF Len(tags) = 0 THEN TRUE
    ELSE IF Len(tags) = 1 THEN TAMP_TAG_match(tags[1])
    ELSE FALSE

----------------------------------------------------------------------------
(* Timestamps.  created_at is the string of the API: [fmt, day], where fmt *)
(* tells whether the text has the form %Y-%m-%dT%H:%M:%SZ and day is the   *)
(* instant the text denotes when it has.                                   *)

ISO_FORMAT == "%Y-%m-%dT%H:%M:%SZ"

iso(day) == [fmt |-> ISO_FORMAT, day |-> day]

\* A created_at that is not of that form, e.g. with fractional seconds.
BAD_TIMESTAMP == [fmt |-> "%Y-%m-%dT%H:%M:%S.%fZ", day |-> 0]

\* strptime taking any text for a timestamp.
strptime_never_raises(created_at) == FALSE

\* datetime.strptime raises ValueError on any other text (lines 56-58).
strptime_raises(created_at) == created_at.fmt # ISO_FORMAT

\* datetime.strptime(...).replace(tzinfo=utc) (lines 56-58).
strptime(created_at) == created_at.day

\* Line 62 with <= for <.
created_before_or_at(created_at, one_month_ago) == created_at <= one_month_ago

\* created_at < one_month_ago (line 62).
created_before(created_at, one_month_ago) == created_at < one_month_ago

\* Line 62 with `or` for `and`.
is_outdated_version_or(version, one_month_ago) ==
    \/ created_before(strptime(version.created_at), one_month_ago)
    \/ version.tags_json = "null"
    \/ is_tags_safe_to_delete(version.tags)

(* The value of "tags" in version["metadata"]["container"]: tags_json    *)
(* tells whether it is a JSON array (then `tags` holds its items), null,  *)
(* or whether the key is absent; `tags` is empty in the last two cases.   *)

\* version["metadata"]["container"]["tags"] (line 60) raises KeyError when
\* the key is absent.
tags_lookup_raises(version) == version.tags_json = "absent"

\* self.is_tags_safe_to_delete(tags) for the value of line 60: None is
\* falsy at line 68, like the empty list.
is_version_tags_safe(version) ==
    IF version.tags_json = "null" THEN TRUE
    ELSE is_tags_safe_to_delete(version.tags)

\* The condition of line 62 for one version.
is_outdated_version(version, one_month_ago) ==
    /\ created_before(strptime(version.created_at), one_month_ago)
    /\ is_version_tags_safe(version)

\* The loop of lines 54-65 leaving at the first version it appends.
RECURSIVE outdated_from_break(_, _, _)
outdated_from_break(versions, one_month_ago, i) ==
    IF i > Len(versions) THEN [raised |-> FALSE, outdated |-> <<>>]
    ELSE IF \/ strptime_raises(versions[i].created_at)
            \/ tags_lookup_raises(versions[i])
         THEN [raised |-> TRUE, outdated |-> <<>>]
    ELSE IF is_outdated_version(versions[i], one_month_ago)
         THEN [raised |-> FALSE, outdated |-> <<versions[i]>>]
    ELSE outdated_from_break(versions, one_month_ago, i + 1)

\* The loop of lines 54-65 appending each outdated version twice.
RECURSIVE outdated_from_twice(_, _, _)
outdated_from_twice(versions, one_month_ago, i) ==
    IF i > Len(versions) THEN [raised |-> FALSE, outdated |-> <<>>]
    ELSE IF \/ strptime_raises(versions[i].created_at)
            \/ tags_lookup_raises(versions[i])
         THEN [raised |-> TRUE, outdated |-> <<>>]
    ELSE LET rest == outdated_from_twice(versions, one_month_ago, i + 1)
             here == IF is_outdated_version(versions[i], one_month_ago)
                     THEN <<versions[i], versions[i]>> ELSE <<>>
         IN  IF rest.raised THEN rest
             ELSE [raised |-> FALSE, outdated |-> here \o rest.outdated]

\* The loop of lines 54-65 with its body in a try/except that goes on to
\* the next version.
RECURSIVE outdated_from_continue(_, _, _)
outdated_from_continue(versions, one_month_ago, i) ==
    IF i > Len(versions) THEN [raised |-> FALSE, outdated |-> <<>>]
    ELSE LET rest == outdated_from_continue(versions, one_month_ago, i + 1)
             here == IF /\ ~strptime_raises(versions[i].created_at)
                        /\ ~tags_lookup_raises(versions[i])
                        /\ is_outdated_version(versions[i], one_month_ago)
                     THEN <<versions[i]>> ELSE <<>>
         IN  [raised |-> FALSE, outdated |-> here \o rest.outdated]

\* The loop of lines 54-65 over versions[i..]: the versions appended to
\* `outdated`, in list order, or the error raised by line 56 or line 60.
RECURSIVE outdated_from(_, _, _)
outdated_from(versions, one_month_ago, i) ==
    IF i > Len(versions) THEN [raised |-> FALSE, outdated |-> <<>>]
    ELSE IF \/ strptime_raises(versions[i].created_at)
            \/ tags_lookup_raises(versions[i])
         THEN [raised |-> TRUE, outdated |-> <<>>]
    ELSE LET rest == outdated_from(versions, one_month_ago, i + 1)
             here == IF is_outdated_version(versions[i], one_month_ago)
                     THEN <<versions[i]>> ELSE <<>>
         IN  IF rest.raised THEN rest
             ELSE [raised |-> FALSE, outdated |-> here \o rest.outdated]

\* one_month_ago = datetime.now(timezone.utc) - timedelta(days=30), line 52.
one_month_ago_at(now) == now - ThirtyDays

----------------------------------------------------------------------------
(* The registry behind the API. *)

\* GET /orgs/{org}/packages (lines 38-40): the packages, in registry order.
list_packages(reg) == [i \in 1..Len(reg) |-> reg[i].name]

\* The comprehension of lines 42-44 yielding the packages last to first.
filter_packages_reversed(names) ==
    LET kept == SelectSeq(names, LAMBDA n : startswith(n, container_prefix))
    IN  [k \in 1..Len(kept) |-> kept[Len(kept) + 1 - k]]

\* packages whose name starts with the prefix (lines 42-44), order kept.
filter_packages(names) ==
    SelectSeq(names, LAMBDA n : startswith(n, container_prefix))

\* GET .../packages/container/{pkg_name}/versions (lines 48-50).
list_versions(reg, pkg_name) ==
    LET i == CHOOSE i \in 1..Len(reg) : reg[i].name = pkg_name
    IN  reg[i].versions

\* The DELETE request of lines 81-84 sent to the URL of the package, without
\* "/versions/{version_id}".
delete_version_whole_package(reg, pkg_name, version_id) ==
    [i \in 1..Len(reg) |->
        IF reg[i].name = pkg_name
        THEN [reg[i] EXCEPT !.versions = <<>>]
        ELSE reg[i]]

\* DELETE .../packages/container/{pkg_name}/versions/{version_id}
\* (lines 81-84), when the request succeeds.
delete_version(reg, pkg_name, version_id) ==
    [i \in 1..Len(reg) |->
        IF reg[i].name = pkg_name
        THEN [reg[i] EXCEPT !.versions =
                 SelectSeq(@, LAMBDA v : v.id # version_id)]
        ELSE reg[i]]

----------------------------------------------------------------------------
(* Initial registries. *)

TagLists == {<<>>, <<poc_x>>, <<prod>>}

CreatedAts == {iso(d) : d \in 0..MaxCreated}

RegularKinds ==
    [created_at : CreatedAts, tags : TagLists, tags_json : {"array"}]

\* Versions with null tags, one without the "tags" key, one whose
\* created_at is not of the expected form.
IrregularKinds ==
    {[created_at |-> c, tags |-> <<>>, tags_json |-> "null"] :
        c \in CreatedAts}
    \cup {[created_at |-> iso(0), tags |-> <<>>, tags_json |-> "absent"],
          [created_at |-> BAD_TIMESTAMP, tags |-> <<>>,
           tags_json |-> "array"]}

VersionKinds == RegularKinds \cup IrregularKinds

SeqsUpTo(S, n) == UNION {[1..k -> S] : k \in 0..n}

NameLists ==
    {ns \in SeqsUpTo(PackageNames, MaxPkgs) :
        \A i, j \in 1..Len(ns) : ns[i] = ns[j] => i = j}

\* Version i of the organisation has id i and belongs to package owner[i];
\* a package lists its versions in id order.
Owners(n, m) ==
    {o \in [1..n -> 1..m] : \A i, j \in 1..n : i <= j => o[i] <= o[j]}

MkVersion(i, kind) ==
    [id |-> i, created_at |-> kind.created_at, tags |-> kind.tags,
     tags_json |-> kind.tags_json]

MkRegistry(names, kinds, owner) ==
    [p \in 1..Len(names) |->
        [name |-> names[p],
         versions |->
            LET all == [i \in 1..Len(kinds) |-> MkVersion(i, kinds[i])]
                idx == SelectSeq([i \in 1..Len(kinds) |-> i],
                                 LAMBDA i : owner[i] = p)
            IN  [k \in 1..Len(idx) |-> all[idx[k]]]]]

----------------------------------------------------------------------------
(* The run: clean_outdated_packages (lines 86-102), one action per request *)
(* it blocks on.  pc is "start" before line 88, "for_pkg" before the call  *)
(* of line 94 for packages[pkgIdx], "for_version" before the call of line  *)
(* 96 for outdated_versions[verIdx], "done" after the summary is printed   *)
(* and "raised" when an exception has left the function.                   *)

CLEANED == "cleanup performed"              \* print of line 100
NOTHING == "no outdated packages found"     \* print of line 102

\* Lines 99-102 with the branches exchanged.
summary_swapped(has) == IF has THEN NOTHING ELSE CLEANED

\* Lines 99-102.
summary(has) == IF has THEN CLEANED ELSE NOTHING

Call(op, pkg, id, ok, now, listed) ==
    [op |-> op, pkg |-> pkg, id |-> id, ok |-> ok, now |-> now,
     listed |-> listed]

Init ==
    /\ \E names \in NameLists :
       \E kinds \in SeqsUpTo(VersionKinds,
                             IF names = <<>> THEN 0 ELSE MaxVersions) :
       \E owner \in Owners(Len(kinds), Len(names)) :
           registry = MkRegistry(names, kinds, owner)
    /\ clock = Clock0
    /\ run = 1
    /\ pc = "start"
    /\ packages = <<>>
    /\ pkgIdx = 0
    /\ outdated_versions = <<>>
    /\ verIdx = 0
    /\ has_outdated = FALSE
    /\ output = ""
    /\ calls = <<>>
    /\ history = <<>>
    /\ arg_tags = <<>>
    /\ ret_safe = FALSE

\* The loop of line 93 moves to packages[k], or ends and lines 99-102 print.
NextPackage(pkgs, k, has) ==
    /\ pkgIdx' = k
    /\ verIdx' = 0
    /\ IF k <= Len(pkgs)
       THEN pc' = "for_pkg" /\ output' = output
       ELSE pc' = "done" /\ output' = summary(has)

\* Lines 88-91: get_packages (lines 36-44), then has_outdated = False.
GetPackages ==
    /\ pc = "start"
    /\ \E ok \in BOOLEAN :
        /\ calls' = Append(calls, Call("listPackages", <<>>, 0, ok, 0, <<>>))
        /\ IF ok
           THEN /\ packages' = filter_packages(list_packages(registry))
                /\ has_outdated' = FALSE
                /\ NextPackage(packages', 1, FALSE)
           ELSE /\ pc' = "raised"
                /\ UNCHANGED <<packages, has_outdated, pkgIdx, verIdx, output>>
    /\ UNCHANGED <<registry, clock, run, outdated_versions, history, probe>>

\* Line 94 inside a try/except that goes on to the next package when the
\* request for the versions fails.
GetOutdatedVersions_skip ==
    /\ pc = "for_pkg"
    /\ \E ok \in BOOLEAN, now \in clock..MaxClock :
        LET pkg_name == packages[pkgIdx]
            versions == list_versions(registry, pkg_name)
            res == outdated_from(versions, one_month_ago_at(now), 1)
        IN  IF ~ok
            THEN /\ calls' = Append(calls,
                        Call("listVersions", pkg_name, 0, FALSE, 0, <<>>))
                 /\ now = clock
                 /\ NextPackage(packages, pkgIdx + 1, has_outdated)
                 /\ UNCHANGED <<clock, outdated_versions>>
            ELSE /\ calls' = Append(calls,
                        Call("listVersions", pkg_name, 0, TRUE, now, versions))
                 /\ clock' = now
                 /\ IF res.raised
                    THEN /\ pc' = "raised"
                         /\ UNCHANGED <<outdated_versions, pkgIdx, verIdx,
                                        output>>
                    ELSE /\ outdated_versions' = res.outdated
                         /\ IF res.outdated = <<>>
                            THEN NextPackage(packages, pkgIdx + 1,
                                             has_outdated)
                            ELSE /\ pc' = "for_version"
                                 /\ verIdx' = 1
                                 /\ UNCHANGED <<pkgIdx, output>>
    /\ UNCHANGED <<registry, run, packages, has_outdated, history, probe>>

\* Line 94: get_outdated_versions (lines 46-65) for packages[pkgIdx].
GetOutdatedVersions ==
    /\ pc = "for_pkg"
    /\ \E ok \in BOOLEAN, now \in clock..MaxClock :
        LET pkg_name == packages[pkgIdx]
            versions == list_versions(registry, pkg_name)
            res == outdated_from(versions, one_month_ago_at(now), 1)
        IN  IF ~ok
            THEN /\ calls' = Append(calls,
                        Call("listVersions", pkg_name, 0, FALSE, 0, <<>>))
                 /\ pc' = "raised"
                 /\ now = clock
                 /\ UNCHANGED <<clock, outdated_versions, pkgIdx, verIdx,
                                output>>
            ELSE /\ calls' = Append(calls,
                        Call("listVersions", pkg_name, 0, TRUE, now, versions))
                 /\ clock' = now
                 /\ IF res.raised
                    THEN /\ pc' = "raised"
                         /\ UNCHANGED <<outdated_versions, pkgIdx, verIdx,
                                        output>>
                    ELSE /\ outdated_versions' = res.outdated
                         /\ IF res.outdated = <<>>
                            THEN NextPackage(packages, pkgIdx + 1,
                                             has_outdated)
                            ELSE /\ pc' = "for_version"
                                 /\ verIdx' = 1
                                 /\ UNCHANGED <<pkgIdx, output>>
    /\ UNCHANGED <<registry, run, packages, has_outdated, history, probe>>

\* Lines 96-97: delete_package_version (lines 77-84) for
\* outdated_versions[verIdx], then has_outdated = True.
DeletePackageVersion ==
    /\ pc = "for_version"
    /\ \E ok \in BOOLEAN :
        LET pkg_name == packages[pkgIdx]
            version == outdated_versions[verIdx]
        IN  /\ calls' = Append(calls,
                    Call("deleteVersion", pkg_name, version.id, ok, 0, <<>>))
            /\ IF ok
               THEN /\ registry' = delete_version(registry, pkg_name,
                                                  version.id)
                    /\ has_outdated' = TRUE
                    /\ IF verIdx < Len(outdated_versions)
                       THEN /\ verIdx' = verIdx + 1
                            /\ UNCHANGED <<pc, pkgIdx, output>>
                       ELSE NextPackage(packages, pkgIdx + 1, TRUE)
               ELSE /\ pc' = "raised"
                    /\ UNCHANGED <<registry, has_outdated, pkgIdx, verIdx,
                                   output>>
    /\ UNCHANGED <<clock, run, packages, outdated_versions, history, probe>>

\* main() is invoked again (lines 105-116) after a run that completed: a
\* new cleaner and a new run against the registry as the last run left it.
NewRun ==
    /\ pc = "done"
    /\ run < MaxRuns
    /\ run' = run + 1
    /\ history' = Append(history,
                         [calls |-> calls, output |-> output, pc |-> pc])
    /\ pc' = "start"
    /\ packages' = <<>>
    /\ pkgIdx' = 0
    /\ outdated_versions' = <<>>
    /\ verIdx' = 0
    /\ has_outdated' = FALSE
    /\ output' = ""
    /\ calls' = <<>>
    /\ UNCHANGED <<registry, clock, probe>>

Next ==
    \/ GetPackages
    \/ GetOutdatedVersions
    \/ DeletePackageVersion
    \/ NewRun

Spec == Init /\ [][Next]_vars

----------------------------------------------------------------------------
(* is_tags_safe_to_delete on its own: one call on a tag list drawn from    *)
(* TagInputs.                                                              *)

temp_2024 == <<"t","e","m","p","-","2","0","2","4">>
tempest_1 == <<"t","e","m","p","e","s","t","-","1">>
latest == <<"l","a","t","e","s","t">>
Temp_1 == <<"T","e","m","p","-","1">>
debug_x == <<"d","e","b","u","g","-","x">>
feat_ == <<"f","e","a","t","-">>
dev_a_nl_b == <<"d","e","v","-","a","\n","b">>

TagPool == {temp_2024, tempest_1, latest, Temp_1, debug_x, feat_, dev,
            dev_a_nl_b, poc_x, prod}

TagInputs == SeqsUpTo(TagPool, MaxTags)

InitTags ==
    /\ arg_tags \in TagInputs
    /\ ret_safe = FALSE
    /\ pc = "call"
    /\ registry = <<>>
    /\ clock = Clock0
    /\ run = 1
    /\ packages = <<>>
    /\ pkgIdx = 0
    /\ outdated_versions = <<>>
    /\ verIdx = 0
    /\ has_outdated = FALSE
    /\ output = ""
    /\ calls = <<>>
    /\ history = <<>>

\* self.is_tags_safe_to_delete(tags) (line 62).
CallIsTagsSafeToDelete ==
    /\ pc = "call"
    /\ ret_safe' = is_tags_safe_to_delete(arg_tags)
    /\ pc' = "returned"
    /\ UNCHANGED <<registry, clock, run, packages, pkgIdx, outdated_versions,
                   verIdx, has_outdated, output, calls, history, arg_tags>>

NextTags == CallIsTagsSafeToDelete

SpecTags == InitTags /\ [][NextTags]_vars

----------------------------------------------------------------------------
(* Vocabulary of the properties, stated on the requests a run issued.      *)

IsDelete(c) == c.op = "deleteVersion"
IsListing(c) == c.op = "listVersions" /\ c.ok

DeleteIdx(cs) == {i \in 1..Len(cs) : IsDelete(cs[i])}
ListingIdx(cs) == {i \in 1..Len(cs) : IsListing(cs[i])}

\* The listing a delete request came from: the last listing before it.
ListingBefore(cs, i) ==
    CHOOSE j \in ListingIdx(cs) :
        j < i /\ \A k \in ListingIdx(cs) : k < i => k <= j

HasListingBefore(cs, i) == \E j \in ListingIdx(cs) : j < i

\* The listed version a delete request names, as a set (empty when none).
Targets(cs, i) ==
    {v \in {cs[ListingBefore(cs, i)].listed[k] :
                k \in 1..Len(cs[ListingBefore(cs, i)].listed)} :
        v.id = cs[i].id}

\* Created strictly earlier than `now` minus 30 days.
Outdated(v, now) == v.created_at.day < now - ThirtyDays

\* The tag is temp, poc, feat, dev or debug, then a hyphen, then anything
\* on the same line: ^(temp|poc|feat|dev|debug)-.*$ .
MatchesPattern(tag) ==
    \E n \in 3..5 :
        /\ Len(tag) > n
        /\ SubSeq(tag, 1, n) \in
                {<<"t","e","m","p">>, <<"p","o","c">>, <<"f","e","a","t">>,
                 <<"d","e","v">>, <<"d","e","b","u","g">>}
        /\ tag[n + 1] = "-"
        /\ \A k \in (n + 2)..(Len(tag) - 1) : tag[k] # "\n"

\* No tags, or exactly one tag and it matches the disposable pattern.
TagSafe(v) ==
    \/ Len(v.tags) = 0
    \/ Len(v.tags) = 1 /\ MatchesPattern(v.tags[1])

DeleteVerdict(v, now) == Outdated(v, now) /\ TagSafe(v)

DeleteIssued(cs, pkg_name, id) ==
    \E i \in DeleteIdx(cs) : cs[i].pkg = pkg_name /\ cs[i].id = id

ListingIssued(cs, pkg_name) ==
    \E i \in 1..Len(cs) : cs[i].op = "listVersions" /\ cs[i].pkg = pkg_name

\* The name starts with "writing-", letter for letter.
Qualifies(name) ==
    /\ Len(name) >= 8
    /\ SubSeq(name, 1, 8) = <<"w","r","i","t","i","n","g","-">>

RunEnded == pc \in {"done", "raised"}

Range(seq) == {seq[i] : i \in 1..Len(seq)}

----------------------------------------------------------------------------
\* C1: a deleteVersion request that fails does not stop the run: once the
\* run has ended, every version of `outdated_versions` has had its delete
\* request and every qualifying package has had its versions listed.
C1_FailedDeleteDoesNotStopRun ==
    (RunEnded /\ \E i \in DeleteIdx(calls) : ~calls[i].ok)
        => /\ \A v \in Range(outdated_versions) :
                DeleteIssued(calls, packages[pkgIdx], v.id)
           /\ \A n \in Range(packages) : ListingIssued(calls, n)

\* C2: every deleteVersion request names a version of the package just
\* listed that is both outdated at the instant of that listing and tag-safe.
C2_DeletesOnlyOutdatedAndTagSafe ==
    \A i \in DeleteIdx(calls) :
        /\ HasListingBefore(calls, i)
        /\ calls[ListingBefore(calls, i)].pkg = calls[i].pkg
        /\ Targets(calls, i) # {}
        /\ \A v \in Targets(calls, i) :
                /\ Outdated(v, calls[ListingBefore(calls, i)].now)
                /\ TagSafe(v)

\* A run that deleted a version while the same listing held an old version
\* with a release tag and a recent untagged one, both left alone.
C2_Witness ==
    /\ pc = "done"
    /\ \E j \in ListingIdx(calls) :
        /\ \E v \in Range(calls[j].listed) :
                DeleteIssued(calls, calls[j].pkg, v.id)
        /\ \E v \in Range(calls[j].listed) :
                /\ Outdated(v, calls[j].now) /\ ~TagSafe(v)
                /\ ~DeleteIssued(calls, calls[j].pkg, v.id)
        /\ \E v \in Range(calls[j].listed) :
                /\ ~Outdated(v, calls[j].now) /\ TagSafe(v)
                /\ ~DeleteIssued(calls, calls[j].pkg, v.id)

C4_SummaryAfterAnyAttempt ==
    (RunEnded /\ DeleteIdx(calls) # {}) => output = CLEANED

\* C5: versions are listed and deleted only for packages whose name starts
\* with the prefix; no version of another package is named by a delete
\* request; a run that is done listed every package that has the prefix.
C5_OnlyPrefixedPackages ==
    /\ \A i \in 1..Len(calls) :
        calls[i].op \in {"listVersions", "deleteVersion"}
            => Qualifies(calls[i].pkg)
    /\ \A i \in DeleteIdx(calls) :
        \A p \in Range(registry) :
            ~Qualifies(p.name) =>
                \A v \in Range(p.versions) : v.id # calls[i].id
    /\ pc = "done" =>
        \A p \in Range(registry) :
            Qualifies(p.name) => ListingIssued(calls, p.name)

\* A run that is done deleted from "writing-api" and left "Writing-api"
\* alone although it holds a version with a delete verdict.
C5_Witness ==
    /\ pc = "done"
    /\ DeleteIdx(calls) # {}
    /\ ListingIssued(calls, writing_api)
    /\ ~ListingIssued(calls, Writing_api)
    /\ \E p \in Range(registry) :
        /\ p.name = Writing_api
        /\ \E v \in Range(p.versions) : DeleteVerdict(v, clock)

Pos(seq, x) == CHOOSE k \in 1..Len(seq) : seq[k] = x

RegistryNames == [k \in 1..Len(registry) |-> registry[k].name]

ListedIds(cs, i) ==
    [k \in 1..Len(cs[ListingBefore(cs, i)].listed) |->
        cs[ListingBefore(cs, i)].listed[k].id]

\* C6: listPackages is the first request; the requests of a package that
\* comes earlier in the list of listPackages all precede those of a later
\* one; within a package the listing precedes the deletes, and the deletes
\* are issued in the order listVersions gave.
C6_GatewayListOrder ==
    /\ \A i \in 1..Len(calls) : calls[i].op = "listPackages" <=> i = 1
    /\ \A i, j \in 2..Len(calls) :
        i < j => Pos(RegistryNames, calls[i].pkg)
                    <= Pos(RegistryNames, calls[j].pkg)
    /\ \A i \in DeleteIdx(calls) :
        /\ HasListingBefore(calls, i)
        /\ calls[ListingBefore(calls, i)].pkg = calls[i].pkg
    /\ \A i, j \in DeleteIdx(calls) :
        (i < j /\ calls[i].pkg = calls[j].pkg)
            => Pos(ListedIds(calls, i), calls[i].id)
                 < Pos(ListedIds(calls, j), calls[j].id)

\* A run that is done deleted from two packages, two versions from one.
C6_Witness ==
    /\ pc = "done"
    /\ \E i, j \in DeleteIdx(calls) :
        i < j /\ calls[i].pkg # calls[j].pkg
    /\ \E i, j \in DeleteIdx(calls) :
        i < j /\ calls[i].pkg = calls[j].pkg

\* C7: is_tags_safe_to_delete returns on every tag sequence, and returns
\* true exactly for no tags or for one tag that matches the pattern:
\* "temp-2024" is safe, "tempest-1", "latest" and "Temp-1" are not, and two
\* or more tags never are.
C7_TagSafetyRule ==
    /\ pc = "call" => ENABLED CallIsTagsSafeToDelete
    /\ pc = "returned" =>
        /\ ret_safe \in BOOLEAN
        /\ ret_safe <=>
            \/ Len(arg_tags) = 0
            \/ Len(arg_tags) = 1 /\ MatchesPattern(arg_tags[1])
        /\ arg_tags = <<temp_2024>> => ret_safe
        /\ arg_tags \in {<<tempest_1>>, <<latest>>, <<Temp_1>>} => ~ret_safe
        /\ Len(arg_tags) >= 2 => ~ret_safe

\* The call on the two disposable tags "temp-2024", "debug-x" returned
\* false.
C7_Witness ==
    /\ pc = "returned"
    /\ arg_tags = <<temp_2024, debug_x>>
    /\ ret_safe = FALSE

LastCall == calls[Len(calls)]

\* C8: the age test is strict.  Of the tag-safe versions of a listing,
\* get_outdated_versions returns exactly those created before now - 30
\* days: not the one created exactly 30 days before now, the one created a
\* day earlier, none created later; and a run that is done has deleted
\* exactly those.
C8_StrictAgeTest ==
    /\ (Len(calls) > 0 /\ IsListing(LastCall) /\ pc # "raised") =>
        \A v \in Range(LastCall.listed) :
            TagSafe(v) =>
                /\ v \in Range(outdated_versions)
                    <=> v.created_at.day < LastCall.now - ThirtyDays
                /\ v.created_at.day = LastCall.now - ThirtyDays
                    => v \notin Range(outdated_versions)
                /\ v.created_at.day = LastCall.now - ThirtyDays - 1
                    => v \in Range(outdated_versions)
    /\ pc = "done" =>
        \A j \in ListingIdx(calls) :
            \A v \in Range(calls[j].listed) :
                TagSafe(v) =>
                    (DeleteIssued(calls, calls[j].pkg, v.id)
                        <=> v.created_at.day + ThirtyDays < calls[j].now)

\* A run that is done listed three untagged versions, created 31 days, 30
\* days and 29 days before the listing, and deleted the first only.
C8_Witness ==
    /\ pc = "done"
    /\ \E j \in ListingIdx(calls) :
        LET l == calls[j].listed IN
        /\ Len(l) = 3
        /\ \A k \in 1..3 : l[k].tags = <<>>
        /\ l[1].created_at.day = calls[j].now - ThirtyDays - 1
        /\ l[2].created_at.day = calls[j].now - ThirtyDays
        /\ l[3].created_at.day = calls[j].now - ThirtyDays + 1
        /\ DeleteIssued(calls, calls[j].pkg, l[1].id)
        /\ ~DeleteIssued(calls, calls[j].pkg, l[2].id)
        /\ ~DeleteIssued(calls, calls[j].pkg, l[3].id)

\* C9: a run that is done has printed one of the two summaries: "cleanup
\* performed" exactly when it issued a deleteVersion request, "no outdated
\* packages found" exactly when no listed version had a delete verdict.
C9_SummaryAtDone ==
    pc = "done" =>
        /\ output \in {CLEANED, NOTHING}
        /\ output = CLEANED <=> DeleteIdx(calls) # {}
        /\ output = NOTHING <=>
            \A j \in ListingIdx(calls) :
                \A v \in Range(calls[j].listed) :
                    ~DeleteVerdict(v, calls[j].now)

\* A run that is done found nothing although the registry holds a version
\* with a delete verdict, in a package that does not qualify.
C9_Witness ==
    /\ pc = "done"
    /\ run = 1
    /\ output = NOTHING
    /\ packages = <<>>
    /\ \E p \in Range(registry) :
        \E v \in Range(p.versions) : DeleteVerdict(v, clock)

\* The run before the current one, and the instant it classified a package.
PrevRun == history[run - 1]

PrevNow(pkg_name) ==
    LET cs == PrevRun.calls
    IN  cs[CHOOSE j \in ListingIdx(cs) : cs[j].pkg = pkg_name].now

NothingBecameOutdated ==
    \A j \in ListingIdx(calls) :
        \A v \in Range(calls[j].listed) :
            Outdated(v, calls[j].now) => Outdated(v, PrevNow(calls[j].pkg))

\* C10: after a run that is done, a further run deletes only versions that
\* became outdated since the earlier run classified their package; when
\* none did, the further run issues no deleteVersion request and reports
\* "no outdated packages found".
C10_SecondRunFindsNothing ==
    (run > 1 /\ PrevRun.pc = "done") =>
        /\ \A i \in DeleteIdx(calls) :
            \A v \in Targets(calls, i) :
                ~Outdated(v, PrevNow(calls[i].pkg))
        /\ (pc = "done" /\ NothingBecameOutdated) =>
            /\ DeleteIdx(calls) = {}
            /\ output = NOTHING

\* The first run deleted a version; the second, a day later, listed what
\* was left, found no version newly outdated and reported nothing.
C10_Witness ==
    /\ run = 2
    /\ pc = "done"
    /\ PrevRun.pc = "done"
    /\ DeleteIdx(PrevRun.calls) # {}
    /\ PrevRun.output = CLEANED
    /\ NothingBecameOutdated
    /\ \E j \in ListingIdx(calls) :
        /\ calls[j].listed # <<>>
        /\ calls[j].now > PrevNow(calls[j].pkg)
    /\ output = NOTHING

----------------------------------------------------------------------------
InRegistry(id) ==
    \E p \in Range(registry) : \E v \in Range(p.versions) : v.id = id

IsFailedList(c) == c.op \in {"listPackages", "listVersions"} /\ ~c.ok

\* C11: a listPackages or listVersions request that fails is the last
\* request of the run, and the run is left by the exception with no summary
\* printed; no deleteVersion request was issued for the package whose
\* listing failed; the versions deleted before stay deleted.
C11_ListFailureSurfaces ==
    \A i \in 1..Len(calls) :
        IsFailedList(calls[i]) =>
            /\ i = Len(calls)
            /\ pc = "raised"
            /\ output = ""
            /\ calls[i].op = "listPackages" => i = 1
            /\ calls[i].op = "listVersions" =>
                \A d \in DeleteIdx(calls) : calls[d].pkg # calls[i].pkg
            /\ \A d \in DeleteIdx(calls) :
                calls[d].ok => ~InRegistry(calls[d].id)

\* The listing of the second package failed after a version of the first
\* was deleted.
C11_Witness ==
    /\ pc = "raised"
    /\ Len(calls) > 0
    /\ LastCall.op = "listVersions"
    /\ ~LastCall.ok
    /\ \E d \in DeleteIdx(calls) :
        /\ calls[d].ok
        /\ calls[d].pkg # LastCall.pkg
        /\ ~InRegistry(calls[d].id)


\* The created_at text is not of the form YYYY-MM-DDTHH:MM:SSZ.
Malformed(v) == v.created_at.fmt # "%Y-%m-%dT%H:%M:%SZ"

\* C12: a listing that holds a version with a malformed created_at is the
\* last request of its run, which the error leaves with no summary printed;
\* no deleteVersion request ever names such a version, and it stays in the
\* registry.
C12_MalformedTimestampRaises ==
    /\ \A j \in ListingIdx(calls) :
        (\E v \in Range(calls[j].listed) : Malformed(v)) =>
            /\ j = Len(calls)
            /\ pc = "raised"
            /\ output = ""
            /\ \A v \in Range(calls[j].listed) : InRegistry(v.id)
    /\ \A d \in DeleteIdx(calls) :
        \A v \in Targets(calls, d) : ~Malformed(v)

\* The package listed an old untagged version and then one with a malformed
\* created_at: the run is left by the error, both versions are still there.
C12_Witness ==
    /\ pc = "raised"
    /\ Len(calls) > 0
    /\ IsListing(LastCall)
    /\ Len(LastCall.listed) >= 2
    /\ DeleteVerdict(LastCall.listed[1], LastCall.now)
    /\ ~Malformed(LastCall.listed[1])
    /\ Malformed(LastCall.listed[2])
    /\ InRegistry(LastCall.listed[1].id)
    /\ InRegistry(LastCall.listed[2].id)


SameRequest(c, d) == c.op = d.op /\ c.pkg = d.pkg /\ c.id = d.id

\* C13: within a run no request is issued twice: listPackages once (and
\* exactly once as soon as the run has started), listVersions at most once
\* per package, deleteVersion at most once per package and version id; a
\* request that failed is the last request of the run.
C13_NoRequestTwice ==
    /\ \A i, j \in 1..Len(calls) :
        SameRequest(calls[i], calls[j]) => i = j
    /\ pc = "start" => calls = <<>>
    /\ pc # "start" =>
        Cardinality({i \in 1..Len(calls) : calls[i].op = "listPackages"}) = 1
    /\ \A i \in 1..Len(calls) :
        ~calls[i].ok => (i = Len(calls) /\ pc = "raised")

\* The second delete request of a package failed after the first one
\* succeeded, and the run ended there.
C13_Witness ==
    /\ pc = "raised"
    /\ Len(calls) > 0
    /\ IsDelete(LastCall)
    /\ ~LastCall.ok
    /\ \E d \in DeleteIdx(calls) :
        /\ calls[d].ok
        /\ calls[d].pkg = LastCall.pkg
        /\ calls[d].id # LastCall.id


\* What a step may do to the registry: the packages stay, in order and by
\* name; a package keeps its versions as they were, in order, but for the
\* one version, if any, that the step's successful deleteVersion request
\* names; that version is of a qualifying package and had a delete verdict
\* in the listing before.
FrameStep ==
    /\ Len(registry') = Len(registry)
    /\ \A p \in 1..Len(registry) :
        LET old == registry[p].versions
            new == registry'[p].versions
            gone == Range(old) \ Range(new)
        IN  /\ registry'[p].name = registry[p].name
            /\ new = SelectSeq(old, LAMBDA v : v \in Range(new))
            /\ ~Qualifies(registry[p].name) => new = old
            /\ gone # {} =>
                LET n == Len(calls')
                    c == calls'[n]
                IN  /\ Cardinality(gone) = 1
                    /\ IsDelete(c) /\ c.ok
                    /\ c.pkg = registry[p].name
                    /\ \A v \in gone :
                        /\ v.id = c.id
                        /\ DeleteVerdict(v,
                                calls'[ListingBefore(calls', n)].now)

\* C14: a run changes the registry only by deleting versions with a delete
\* verdict from qualifying packages: no package or version is created or
\* modified, and every other version stays as it was.
C14_RegistryOnlyLosesVerdictVersions == [][FrameStep]_vars

\* A run that is done deleted a version, kept a version of the same listing
\* that had no delete verdict, and the registry still holds a package that
\* does not qualify with its versions.
C14_Witness ==
    /\ pc = "done"
    /\ \E d \in DeleteIdx(calls) : calls[d].ok /\ ~InRegistry(calls[d].id)
    /\ \E j \in ListingIdx(calls) :
        \E v \in Range(calls[j].listed) :
            /\ ~DeleteVerdict(v, calls[j].now)
            /\ \E p \in Range(registry) :
                p.name = calls[j].pkg /\ v \in Range(p.versions)
    /\ \E p \in Range(registry) :
        ~Qualifies(p.name) /\ p.versions # <<>>


\* The version has no tags: an empty list, null, or no "tags" key.
Untagged(v) ==
    \/ v.tags_json \in {"null", "absent"}
    \/ v.tags_json = "array" /\ v.tags = <<>>

\* C15: a version with an empty, null or missing tag list is evaluated as
\* one with zero tags: a listing whose timestamps are all well-formed does
\* not end the run with an error, and a run that is done has deleted such a
\* version exactly when it was outdated.
C15_AbsentTagsAreUntagged ==
    \A j \in ListingIdx(calls) :
        /\ (\A v \in Range(calls[j].listed) : ~Malformed(v))
            => ~(j = Len(calls) /\ pc = "raised")
        /\ pc = "done" =>
            \A v \in Range(calls[j].listed) :
                Untagged(v) =>
                    (DeleteIssued(calls, calls[j].pkg, v.id)
                        <=> Outdated(v, calls[j].now))


SameData(v, w) ==
    /\ v.created_at = w.created_at
    /\ v.tags = w.tags
    /\ v.tags_json = w.tags_json

\* C16: all verdicts of a run are taken against one instant: in a run that
\* is done, two listed versions with the same created_at and the same tags
\* were both deleted or both kept, whichever packages they belong to.
C16_OneInstantPerRun ==
    pc = "done" =>
        \A j, k \in ListingIdx(calls) :
            \A v \in Range(calls[j].listed) :
                \A w \in Range(calls[k].listed) :
                    SameData(v, w) =>
                        (DeleteIssued(calls, calls[j].pkg, v.id)
                            <=> DeleteIssued(calls, calls[k].pkg, w.id))


\* Evaluating the version raises: its created_at is malformed or it has no
\* "tags" key.
EvalError(v) == Malformed(v) \/ v.tags_json = "absent"

\* C17: a package is listed, then classified as a whole, then deleted from:
\* every deleteVersion request follows the listing of its package, in which
\* no version raised; while deleting, `outdated_versions` holds every listed
\* version with a delete verdict; and a listing in which some version
\* raises, at whatever position, ends the run with no deleteVersion request
\* for that package.
C17_ClassifyAllBeforeDeleting ==
    /\ \A d \in DeleteIdx(calls) :
        /\ HasListingBefore(calls, d)
        /\ calls[ListingBefore(calls, d)].pkg = calls[d].pkg
        /\ \A v \in Range(calls[ListingBefore(calls, d)].listed) :
                ~EvalError(v)
    /\ pc = "for_version" =>
        LET j == ListingBefore(calls, Len(calls) + 1)
        IN  Range(outdated_versions) =
                {v \in Range(calls[j].listed) :
                    DeleteVerdict(v, calls[j].now)}
    /\ \A j \in ListingIdx(calls) :
        (\E v \in Range(calls[j].listed) : EvalError(v)) =>
            /\ j = Len(calls)
            /\ pc = "raised"
            /\ \A d \in DeleteIdx(calls) : calls[d].pkg # calls[j].pkg

\* The listing holds an old untagged version first and a version without
\* the "tags" key last: the run ended with no delete request at all.
C17_Witness ==
    /\ pc = "raised"
    /\ Len(calls) > 0
    /\ IsListing(LastCall)
    /\ Len(LastCall.listed) = 3
    /\ DeleteVerdict(LastCall.listed[1], LastCall.now)
    /\ ~EvalError(LastCall.listed[1])
    /\ ~EvalError(LastCall.listed[2])
    /\ LastCall.listed[3].tags_json = "absent"
    /\ DeleteIdx(calls) = {}

====
